---- MODULE Spec2Model ----
(***************************************************************************)
(* Block-placement puzzle engine of src/src/pages/BlockGame.jsx.           *)
(*                                                                         *)
(* The component keeps one mutable game object in the ref G.current;       *)
(* startGame replaces the object, the handlers (selectPiece, drop, the     *)
(* Escape key handler) mutate the object G.current points to, and the      *)
(* setTimeout callback of clearLines mutates the object its closure        *)
(* captured.  The model keeps the objects in a heap indexed by creation    *)
(* number, so that a callback of an earlier game is distinguishable from   *)
(* one of the current game.                                                *)
(*                                                                         *)
(* Left out: hoverR/hoverC and the render pass (pointer tracking and       *)
(* drawing only read the state), and the rerender() tick.                  *)
(***************************************************************************)
EXTENDS Integers, Sequences, FiniteSets

\* ------------------------------------------------------------------ bounds
\* accepted drops explored over one run (all games together)
MaxDrops == 3
\* startGame calls after the one made on mount
MaxStarts == 1

\* accepted drops explored by SpecCanPlace, which evaluates canPlace for the
\* whole catalogue at every anchor in each state it reaches
MaxProbeDrops == 2

\* ------------------------------------------------------------- constants
GRID_SIZE == 8

\* JS null for number-valued fields (selIdx, a tray slot's piece reference)
NULL == -1
\* JS null for a grid cell (a cell holds a colour string or null)
EMPTY == "null"

Idx == 0 .. (GRID_SIZE - 1)

\* The catalogue; a piece reference is its 0-based position in PIECES.
PIECES ==
  << [cells |-> << <<0,0>> >>,                                           color |-> "#f472b6"],
     [cells |-> << <<0,0>>,<<0,1>> >>,                                   color |-> "#4ade80"],
     [cells |-> << <<0,0>>,<<1,0>> >>,                                   color |-> "#4ade80"],
     [cells |-> << <<0,0>>,<<0,1>>,<<0,2>> >>,                           color |-> "#60a5fa"],
     [cells |-> << <<0,0>>,<<1,0>>,<<2,0>> >>,                           color |-> "#60a5fa"],
     [cells |-> << <<0,0>>,<<0,1>>,<<0,2>>,<<0,3>> >>,                   color |-> "#22d3ee"],
     [cells |-> << <<0,0>>,<<1,0>>,<<2,0>>,<<3,0>> >>,                   color |-> "#22d3ee"],
     [cells |-> << <<0,0>>,<<0,1>>,<<0,2>>,<<0,3>>,<<0,4>> >>,           color |-> "#a3e635"],
     [cells |-> << <<0,0>>,<<1,0>>,<<2,0>>,<<3,0>>,<<4,0>> >>,           color |-> "#a3e635"],
     [cells |-> << <<0,0>>,<<0,1>>,<<1,0>>,<<1,1>> >>,                   color |-> "#fbbf24"],
     [cells |-> << <<0,0>>,<<0,1>>,<<0,2>>,<<1,0>>,<<1,1>>,<<1,2>>,<<2,0>>,<<2,1>>,<<2,2>> >>,
                                                                         color |-> "#fde047"],
     [cells |-> << <<0,0>>,<<0,1>>,<<0,2>>,<<1,0>>,<<1,1>>,<<1,2>> >>,   color |-> "#fb923c"],
     [cells |-> << <<0,0>>,<<0,1>>,<<1,0>>,<<1,1>>,<<2,0>>,<<2,1>> >>,   color |-> "#fb923c"],
     [cells |-> << <<0,0>>,<<1,0>>,<<2,0>>,<<2,1>> >>,                   color |-> "#c084fc"],
     [cells |-> << <<0,1>>,<<1,1>>,<<2,0>>,<<2,1>> >>,                   color |-> "#c084fc"],
     [cells |-> << <<0,0>>,<<0,1>>,<<1,0>>,<<2,0>> >>,                   color |-> "#c084fc"],
     [cells |-> << <<0,0>>,<<0,1>>,<<1,1>>,<<2,1>> >>,                   color |-> "#c084fc"],
     [cells |-> << <<0,0>>,<<0,1>>,<<0,2>>,<<1,1>> >>,                   color |-> "#e879f9"],
     [cells |-> << <<0,0>>,<<1,0>>,<<2,0>>,<<1,1>> >>,                   color |-> "#e879f9"],
     [cells |-> << <<0,1>>,<<0,2>>,<<1,0>>,<<1,1>> >>,                   color |-> "#f87171"],
     [cells |-> << <<0,0>>,<<0,1>>,<<1,1>>,<<1,2>> >>,                   color |-> "#f87171"],
     [cells |-> << <<0,1>>,<<1,0>>,<<1,1>>,<<1,2>>,<<2,1>> >>,           color |-> "#38bdf8"],
     [cells |-> << <<0,0>>,<<0,1>>,<<1,0>> >>,                           color |-> "#34d399"],
     [cells |-> << <<0,0>>,<<0,1>>,<<1,1>> >>,                           color |-> "#34d399"],
     [cells |-> << <<0,0>>,<<1,0>>,<<1,1>> >>,                           color |-> "#34d399"],
     [cells |-> << <<0,1>>,<<1,0>>,<<1,1>> >>,                           color |-> "#34d399"] >>

PieceRefs == 0 .. (Len(PIECES) - 1)

\* the piece a reference denotes
Piece(k) == PIECES[k + 1]

\* ------------------------------------------------------- explored inputs
\* Outcomes of three successive Math.floor(Math.random() * PIECES.length)
\* the runs explore (one triple fills a tray):
\*   3x3 block, 1x5 bar, 1x5 bar   and   4x1 bar, 4x1 bar, 1x5 bar.
RandomDraws == { <<10, 7, 7>>, <<6, 6, 7>> }

\* Cells the player clicks or touches, as <<row, col>>.
DropCells == { <<0,0>>, <<0,3>>, <<1,3>>, <<4,3>>, <<4,4>> }

\* A tray whose three shapes can complete a row and a column with one
\* placement: 3x3 block, 1x5 bar, 5x1 bar; and the cells clicked to do it.
CrossDraws == { <<10, 7, 8>> }
CrossCells == { <<0,0>>, <<0,3>>, <<3,0>> }

\* Contents of localStorage['bb_best'] left by an earlier session:
\* absent, or the decimal string of a best score.
StoredAtLoad == { <<>>, <<6>> }

\* ------------------------------------------------------------ pure code
\* String(n) for a non-negative integer, as its sequence of decimal digits
RECURSIVE toDecimal(_)
toDecimal(n) == IF n < 10 THEN <<n>> ELSE Append(toDecimal(n \div 10), n % 10)

\* parseInt(s) of a string of decimal digits
RECURSIVE parseInt(_)
parseInt(s) ==
  IF Len(s) = 0 THEN 0
  ELSE 10 * parseInt(SubSeq(s, 1, Len(s) - 1)) + s[Len(s)]

\* startGame carrying no best over: best starts at 0
getItemOrZero_ignoresStore(store) == <<0>>

\* localStorage.getItem('bb_best') || '0'   (null and '' are both falsy)
getItemOrZero(store) == IF store = <<>> THEN <<0>> ELSE store

randPiece(k) == k

makeGrid == [r \in Idx |-> [c \in Idx |-> EMPTY]]

\* the loop of canPlace from the k-th offset on; the bounds tests guard the
\* read of grid[r][c]
RECURSIVE canPlaceFrom(_, _, _, _, _)
canPlaceFrom(grid, cells, sr, sc, k) ==
  IF k > Len(cells) THEN TRUE
  ELSE LET r == sr + cells[k][1]
           c == sc + cells[k][2]
       IN IF r < 0 \/ r >= GRID_SIZE \/ c < 0 \/ c >= GRID_SIZE \/ grid[r][c] # EMPTY
          THEN FALSE
          ELSE canPlaceFrom(grid, cells, sr, sc, k + 1)

\* canPlace returning after its first offset (the return true inside the loop)
canPlace_firstOffsetOnly(grid, piece, sr, sc) ==
  canPlaceFrom(grid, <<piece.cells[1]>>, sr, sc, 1)

\* canPlace testing the bounds but not the occupancy of a cell
canPlace_boundsOnly(grid, piece, sr, sc) ==
  \A k \in DOMAIN piece.cells :
     /\ sr + piece.cells[k][1] \in Idx
     /\ sc + piece.cells[k][2] \in Idx

canPlace(grid, piece, sr, sc) == canPlaceFrom(grid, piece.cells, sr, sc, 1)

\* hasAnyMove looking at the first tray slot alone
hasAnyMove_firstSlotOnly(grid, pieces) ==
  /\ pieces[0] # NULL
  /\ \E r \in Idx : \E c \in Idx : canPlace(grid, Piece(pieces[0]), r, c)

\* hasAnyMove answering for the tray alone: a shape is left
hasAnyMove_ignoresGrid(grid, pieces) == \E i \in DOMAIN pieces : pieces[i] # NULL

hasAnyMove(grid, pieces) ==
  \E i \in DOMAIN pieces :
     /\ pieces[i] # NULL
     /\ \E r \in Idx : \E c \in Idx : canPlace(grid, Piece(pieces[i]), r, c)

\* ---------------------------------------------------------------- state
VARIABLES
  heap,     \* the game objects alive: creation number -> object
  G,        \* G.current: the creation number of the current game object
  timers,   \* pending clear timeouts, oldest first
  storage,  \* localStorage['bb_best'] (<<>> when absent)
  ev,       \* the handler that ran last, with its arguments
  drops,    \* accepted drops so far
  starts    \* startGame calls so far, the one on mount not counted

vars == <<heap, G, timers, storage, ev, drops, starts>>

\* the object startGame builds, for the three draws and the stored best
newGame(d0, d1, d2, store) ==
  [ grid         |-> makeGrid,
    score        |-> 0,
    linesCleared |-> 0,
    streak       |-> 0,
    pieces       |-> [i \in 0..2 |-> IF i = 0 THEN randPiece(d0)
                                     ELSE IF i = 1 THEN randPiece(d1)
                                     ELSE randPiece(d2)],
    selIdx       |-> NULL,
    placing      |-> FALSE,
    flashCells   |-> {},
    gameOverMsg  |-> <<>>,
    comboText    |-> "",
    best         |-> parseInt(getItemOrZero(store)) ]

\* objects still referenced: by G.current or by the closure of a pending timeout
Live(h, cur, tm) ==
  [id \in ({cur} \cup {tm[i].g : i \in DOMAIN tm}) \cap DOMAIN h |-> h[id]]

\* getState(): the current game object
cur == heap[G]

Event(op, a, b, ok) == [op |-> op, a |-> a, b |-> b, ok |-> ok]

Init ==
  /\ \E d \in RandomDraws, s \in StoredAtLoad :
       /\ storage = s
       /\ heap = [id \in {0} |-> newGame(d[1], d[2], d[3], s)]
  /\ G = 0
  /\ timers = <<>>
  /\ ev = Event("startGame", 0, 0, TRUE)
  /\ drops = 0
  /\ starts = 0

startGame ==
  /\ starts < MaxStarts
  /\ \E d \in RandomDraws :
       LET id == starts + 1
           h  == [i \in DOMAIN heap \cup {id} |->
                    IF i = id THEN newGame(d[1], d[2], d[3], storage) ELSE heap[i]]
       IN /\ heap' = Live(h, id, timers)
          /\ G' = id
  /\ starts' = starts + 1
  /\ ev' = Event("startGame", starts + 1, 0, TRUE)
  /\ UNCHANGED <<timers, storage, drops>>

\* a refill as soon as some slot is empty
refills_anyEmpty(g) == \E i \in 0..2 : g.pieces[i] = NULL

\* done() without the refill
refills_never(g) == FALSE

\* whether done() will draw a new tray for g
refills(g) == \A i \in 0..2 : g.pieces[i] = NULL

\* done() never recording the best (left to the game-over branch)
beatsBest_never(score, best) == FALSE

\* done() recording the score whenever it differs from the best
beatsBest_differs(score, best) == score # best

\* the test of done() for a new best
beatsBest(score, best) == score > best

\* a callback that leaves the object as it finds it
done_doesNothing(g, store, d0, d1, d2) == [g |-> g, store |-> store]

\* The callback drop hands to clearLines, run on object g:
\* un-busy, refill an exhausted tray (with the draws d0, d1, d2), record a
\* new best, evaluate game over.  Yields the object and the store.
done(g, store, d0, d1, d2) ==
  LET tray  == IF refills(g)
               THEN [i \in 0..2 |-> IF i = 0 THEN randPiece(d0)
                                    ELSE IF i = 1 THEN randPiece(d1)
                                    ELSE randPiece(d2)]
               ELSE g.pieces
      best1 == IF beatsBest(g.score, g.best) THEN g.score ELSE g.best
      st1   == IF beatsBest(g.score, g.best) THEN toDecimal(best1) ELSE store
      over  == ~hasAnyMove(g.grid, tray)
      best2 == IF over /\ g.score > best1 THEN g.score ELSE best1
      st2   == IF over /\ g.score > best1 THEN toDecimal(best2) ELSE st1
      isNew == g.score >= best2 /\ g.score > 0
  IN [ g     |-> [g EXCEPT !.placing = FALSE,
                           !.pieces = tray,
                           !.best = best2,
                           !.gameOverMsg = IF over THEN <<g.score, isNew>> ELSE @],
       store |-> st2 ]

\* the outcomes of the three Math.random() calls of a refill; when no refill
\* happens nothing is drawn
Draws(needed) ==
  IF needed THEN RandomDraws
  ELSE {<<NULL, NULL, NULL>>}

\* rowsFull with some() where the code has every()
rowsFull_some(grid) == {r \in Idx : \E c \in Idx : grid[r][c] # EMPTY}

rowsFull(grid) == {r \in Idx : \A c \in Idx : grid[r][c] # EMPTY}
colsFull(grid) == {c \in Idx : \A r \in Idx : grid[r][c] # EMPTY}

\* toFlash filled from the rows alone as soon as a row is full
lineCells_rowsFirst(rows, cols) ==
  IF rows # {} THEN {r * GRID_SIZE + c : r \in rows, c \in Idx}
  ELSE {r * GRID_SIZE + c : r \in Idx, c \in cols}

\* toFlash keyed by c*GRID_SIZE+r
lineCells_transposed(rows, cols) ==
  {c * GRID_SIZE + r : r \in rows, c \in Idx} \cup {c * GRID_SIZE + r : r \in Idx, c \in cols}

\* the cells (as r*GRID_SIZE+c) of the given rows and columns
lineCells(rows, cols) ==
  {r * GRID_SIZE + c : r \in rows, c \in Idx} \cup {r * GRID_SIZE + c : r \in Idx, c \in cols}

comboLabel(streak) ==
  LET labels == <<"", "", "DOUBLE!", "TRIPLE!", "QUAD!", "MEGA COMBO!">>
      k      == IF streak < Len(labels) - 1 THEN streak ELSE Len(labels) - 1
  IN IF streak > 1 THEN labels[k + 1] ELSE ""

\* the multiplier taken from the streak before its increment
comboBonus_preIncrement(streak) == IF streak - 1 > 1 THEN streak - 1 ELSE 1

\* the combo multiplier for the streak after its increment
comboBonus(streak) == IF streak > 1 THEN streak ELSE 1

\* the points for count lines under a multiplier
linePoints(count, bonus) == count * GRID_SIZE * 10 * bonus

\* the no-line branch without the reset of the streak
noLines_keepsStreak(g) == [g EXCEPT !.comboText = ""]

\* the writes of clearLines when no line is full
noLines(g) == [g EXCEPT !.streak = 0, !.comboText = ""]

\* The synchronous part of clearLines(done) on object g: with no full line it
\* resets the streak and runs done() at once; otherwise it scores the lines,
\* flags them and leaves a timeout.  Yields the object, the store and the
\* timeout scheduled (none: <<>>).
clearLines(g, id, store, d0, d1, d2) ==
  LET rowsToClear == rowsFull(g.grid)
      colsToClear == colsFull(g.grid)
      count  == Cardinality(rowsToClear) + Cardinality(colsToClear)
      streak == g.streak + 1
      bonus  == comboBonus(streak)
      pts    == linePoints(count, bonus)
      score  == g.score + pts
      newBest == score > g.best
  IN IF count = 0
     THEN LET r == done(noLines(g), store, d0, d1, d2)
          IN [g |-> r.g, store |-> r.store, timeout |-> <<>>]
     ELSE [ g |-> [g EXCEPT !.streak = streak,
                            !.score = score,
                            !.linesCleared = @ + count,
                            !.best = IF newBest THEN score ELSE @,
                            !.comboText = comboLabel(streak),
                            !.flashCells = lineCells(rowsToClear, colsToClear)],
            store |-> IF newBest THEN toDecimal(score) ELSE store,
            timeout |-> << [g |-> id, rows |-> rowsToClear, cols |-> colsToClear] >> ]

\* fill stopping one offset short
fill_skipsLastOffset(grid, p, r, c) ==
  LET foot == {<<r + p.cells[k][1], c + p.cells[k][2]>> : k \in 1 .. (Len(p.cells) - 1)}
  IN [rr \in Idx |-> [cc \in Idx |-> IF <<rr, cc>> \in foot THEN p.color ELSE grid[rr][cc]]]

\* the grid with piece p written at anchor (r, c)
fill(grid, p, r, c) ==
  LET foot == {<<r + p.cells[k][1], c + p.cells[k][2]>> : k \in DOMAIN p.cells}
  IN [rr \in Idx |-> [cc \in Idx |-> IF <<rr, cc>> \in foot THEN p.color ELSE grid[rr][cc]]]

\* drop without the test of the placing flag
dropAccepted_ignoresPlacing(g, r, c) ==
  /\ g.selIdx # NULL
  /\ g.pieces[g.selIdx] # NULL
  /\ canPlace(g.grid, Piece(g.pieces[g.selIdx]), r, c)

\* the guards of drop: busy, nothing selected, (a null piece throws in
\* canPlace before anything is written), illegal placement
dropAccepted(g, r, c) ==
  /\ ~g.placing
  /\ g.selIdx # NULL
  /\ g.pieces[g.selIdx] # NULL
  /\ canPlace(g.grid, Piece(g.pieces[g.selIdx]), r, c)

\* drop emptying the first tray slot whichever slot is selected
place_emptiesFirstSlot(g, r, c) ==
  LET p == Piece(g.pieces[g.selIdx])
  IN [g EXCEPT !.placing = TRUE,
               !.grid = fill(g.grid, p, r, c),
               !.score = @ + Len(p.cells),
               !.pieces = [@ EXCEPT ![0] = NULL],
               !.selIdx = NULL]

\* the object after the writes of drop that precede clearLines
place(g, r, c) ==
  LET p == Piece(g.pieces[g.selIdx])
  IN [g EXCEPT !.placing = TRUE,
               !.grid = fill(g.grid, p, r, c),
               !.score = @ + Len(p.cells),
               !.pieces = [@ EXCEPT ![g.selIdx] = NULL],
               !.selIdx = NULL]

\* selectPiece without the toggle: the clicked slot is always selected
selectPiece_neverDeselects(idx) ==
  LET g == heap[G]
  IN /\ heap' = [heap EXCEPT ![G] =
                   IF g.pieces[idx] = NULL THEN g ELSE [g EXCEPT !.selIdx = idx]]
     /\ ev' = Event("selectPiece", idx, 0, g.pieces[idx] # NULL)
     /\ UNCHANGED <<G, timers, storage, drops, starts>>

\* selectPiece without the test for an emptied slot
selectPiece_ignoresEmpty(idx) ==
  LET g == heap[G]
  IN /\ heap' = [heap EXCEPT ![G].selIdx = IF g.selIdx = idx THEN NULL ELSE idx]
     /\ ev' = Event("selectPiece", idx, 0, g.pieces[idx] # NULL)
     /\ UNCHANGED <<G, timers, storage, drops, starts>>

selectPiece(idx) ==
  LET g == heap[G]
  IN /\ heap' = [heap EXCEPT ![G] =
                   IF g.pieces[idx] = NULL THEN g
                   ELSE [g EXCEPT !.selIdx = IF g.selIdx = idx THEN NULL ELSE idx]]
     /\ ev' = Event("selectPiece", idx, 0, g.pieces[idx] # NULL)
     /\ UNCHANGED <<G, timers, storage, drops, starts>>

\* a cancel that also drops the placing flag
escape_resetsPlacing ==
  /\ heap' = [heap EXCEPT ![G].selIdx = NULL, ![G].placing = FALSE]
  /\ ev' = Event("escape", 0, 0, TRUE)
  /\ UNCHANGED <<G, timers, storage, drops, starts>>

escape ==
  /\ heap' = [heap EXCEPT ![G].selIdx = NULL]
  /\ ev' = Event("escape", 0, 0, TRUE)
  /\ UNCHANGED <<G, timers, storage, drops, starts>>

\* drop writing g.placing = true before its guards
dropRejected_writesFirst(r, c) ==
  /\ ~dropAccepted(heap[G], r, c)
  /\ heap' = [heap EXCEPT ![G].placing = TRUE]
  /\ ev' = Event("drop", r, c, FALSE)
  /\ UNCHANGED <<G, timers, storage, drops, starts>>

dropRejected(r, c) ==
  /\ ~dropAccepted(heap[G], r, c)
  /\ ev' = Event("drop", r, c, FALSE)
  /\ UNCHANGED <<heap, G, timers, storage, drops, starts>>

dropPlaced(r, c) ==
  /\ dropAccepted(heap[G], r, c)
  /\ drops < MaxDrops
  /\ LET g1 == place(heap[G], r, c)
     IN \E d \in Draws(rowsFull(g1.grid) \cup colsFull(g1.grid) = {} /\ refills(g1)) :
          LET res == clearLines(g1, G, storage, d[1], d[2], d[3])
          IN /\ heap' = [heap EXCEPT ![G] = res.g]
             /\ storage' = res.store
             /\ timers' = timers \o res.timeout
  /\ drops' = drops + 1
  /\ ev' = Event("drop", r, c, TRUE)
  /\ UNCHANGED <<G, starts>>

drop(r, c) == dropRejected(r, c) \/ dropPlaced(r, c)

\* a callback that reads getState() when it fires
captured_readsCurrent(t) == G

\* the object the closure of timeout t writes to: the g that clearLines read
\* from getState() when it scheduled t
captured(t) == t.g

\* the oldest clear timeout fires: empty its lines on the object it captured,
\* drop the flags, run done()
timeout ==
  /\ timers # <<>>
  /\ LET t == Head(timers)
         g == heap[captured(t)]
         cleared == [g EXCEPT
                       !.grid = [r \in Idx |-> [c \in Idx |->
                                   IF r \in t.rows \/ c \in t.cols THEN EMPTY ELSE g.grid[r][c]]],
                       !.flashCells = {},
                       !.comboText = ""]
     IN \E d \in Draws(refills(cleared)) :
          LET res == done(cleared, storage, d[1], d[2], d[3])
          IN /\ heap' = Live([heap EXCEPT ![captured(t)] = res.g], G, Tail(timers))
             /\ storage' = res.store
             /\ ev' = Event("timeout", t.g, 0, TRUE)
  /\ timers' = Tail(timers)
  /\ UNCHANGED <<G, drops, starts>>

Next ==
  \/ startGame
  \/ \E idx \in 0..2 : selectPiece(idx)
  \/ escape
  \/ \E cell \in DropCells : drop(cell[1], cell[2])
  \/ timeout

Spec == Init /\ [][Next]_vars

\* The first placements of the game loaded on mount (no restart, no Escape).
NextCanPlace ==
  \/ \E idx \in 0..2 : selectPiece(idx)
  \/ \E cell \in DropCells : drop(cell[1], cell[2]) /\ drops' <= MaxProbeDrops
  \/ timeout

SpecCanPlace == Init /\ [][NextCanPlace]_vars

\* The game loaded on mount with the tray of CrossDraws, played on CrossCells.
InitCross ==
  /\ \E d \in CrossDraws, s \in StoredAtLoad :
       /\ storage = s
       /\ heap = [id \in {0} |-> newGame(d[1], d[2], d[3], s)]
  /\ G = 0
  /\ timers = <<>>
  /\ ev = Event("startGame", 0, 0, TRUE)
  /\ drops = 0
  /\ starts = 0

NextCross ==
  \/ \E idx \in 0..2 : selectPiece(idx)
  \/ escape
  \/ \E cell \in CrossCells : drop(cell[1], cell[2])
  \/ timeout

SpecCross == InitCross /\ [][NextCross]_vars

\* selectPiece(idx) then drop(r, c) on object g in one go, for a placement
\* the guards of drop accept: the object, the store and the timeout it leaves
Replay(g, store, idx, r, c, d) ==
  clearLines(place([g EXCEPT !.selIdx = idx], r, c), 0, store, d[1], d[2], d[3])

\* A game some way in: loaded on mount with three 4x1 bars, which were placed
\* at (0,3), (4,4) and (0,0) (no line; the third placement refilled the tray
\* with 4x1, 4x1, 1x5).  Columns 3 and 4 now stop the 1x5 bar in every row.
EndgameOpening(s) ==
  LET a == Replay(newGame(6, 6, 6, s), s, 0, 0, 3, <<6, 6, 7>>)
      b == Replay(a.g, a.store, 1, 4, 4, <<6, 6, 7>>)
      c == Replay(b.g, b.store, 2, 0, 0, <<6, 6, 7>>)
  IN c

\* the cells clicked from there on
EndgameCells == { <<0,1>>, <<4,0>>, <<0,3>>, <<4,3>> }

\* drops and starts count from the end of the opening
InitEndgame ==
  /\ \E s \in StoredAtLoad :
       /\ storage = EndgameOpening(s).store
       /\ heap = [id \in {0} |-> EndgameOpening(s).g]
  /\ G = 0
  /\ timers = <<>>
  /\ ev = Event("drop", 0, 0, TRUE)
  /\ drops = 0
  /\ starts = 0

NextEndgame ==
  \/ startGame
  \/ \E idx \in 0..2 : selectPiece(idx)
  \/ escape
  \/ \E cell \in EndgameCells : drop(cell[1], cell[2])
  \/ timeout

SpecEndgame == InitEndgame /\ [][NextEndgame]_vars

\* The runs of SpecCross in which a clear timeout that is due does fire: the
\* browser runs the callback of setTimeout once its 380 ms have passed.
FairCross == SpecCross /\ WF_vars(timeout)

\* ===================================================================
\* Properties
\* ===================================================================

\* the cells piece k covers when anchored at (r, c)
Footprint(k, r, c) ==
  {<<r + Piece(k).cells[i][1], c + Piece(k).cells[i][2]>> : i \in DOMAIN Piece(k).cells}

\* every cell of the footprint lies on the board and is empty
Legal(grid, k, r, c) ==
  \A i \in DOMAIN Piece(k).cells :
     /\ r + Piece(k).cells[i][1] \in Idx
     /\ c + Piece(k).cells[i][2] \in Idx
     /\ grid[r + Piece(k).cells[i][1]][c + Piece(k).cells[i][2]] = EMPTY

Filled(grid) == {cell \in Idx \X Idx : grid[cell[1]][cell[2]] # EMPTY}

\* the step is a call drop(cell)
DropCall(cell) == ev'.op = "drop" /\ ev'.a = cell[1] /\ ev'.b = cell[2]

\* a piece is selected in object g
HasSelection(g) == g.selIdx # NULL /\ g.pieces[g.selIdx] # NULL

\* C1: canPlace(grid, shape, row, col) is true exactly when every cell of the
\* shape's footprint at that anchor is inside the 8x8 grid and Empty, for
\* every catalogue shape and every anchor, on every grid the game reaches.
C1_CanPlaceIffFootprintFree ==
  LET grid == cur.grid
  IN \A k \in PieceRefs : \A r \in Idx : \A c \in Idx :
        canPlace(grid, Piece(k), r, c) <=> Legal(grid, k, r, c)

\* a drop has run on a grid where shape 14 (whose anchor cell is not one of
\* its cells) fits at a Filled anchor, while other placements fail for an
\* occupied cell and for a cell off the board
C1_Witness ==
  /\ ev.op = "drop"
  /\ \E r \in Idx : \E c \in Idx :
        cur.grid[r][c] # EMPTY /\ canPlace(cur.grid, Piece(14), r, c)
  /\ \E r \in Idx : \E c \in Idx :
        /\ Footprint(0, r, c) \subseteq Idx \X Idx
        /\ ~canPlace(cur.grid, Piece(0), r, c)
  /\ ~canPlace(cur.grid, Piece(7), 7, 4)

\* C2: an accepted drop turns exactly the cells of the shape's footprint from
\* Empty to Filled, as many as the shape has cells, changes no other cell
\* before it returns, and raises the score by at least the cell count.
C2_PlacementAdditivity ==
  [][\A cell \in DropCells :
       (DropCall(cell) /\ ~cur.placing /\ HasSelection(cur)
          /\ Legal(cur.grid, cur.pieces[cur.selIdx], cell[1], cell[2]))
       => LET k       == cur.pieces[cur.selIdx]
              changed == {x \in Idx \X Idx : heap'[G].grid[x[1]][x[2]] # cur.grid[x[1]][x[2]]}
          IN /\ G' = G
             /\ changed = Footprint(k, cell[1], cell[2])
             /\ Cardinality(changed) = Len(Piece(k).cells)
             /\ changed \cap Filled(cur.grid) = {}
             /\ changed \subseteq Filled(heap'[G].grid)
             /\ heap'[G].score >= cur.score + Len(Piece(k).cells)]_vars

\* an accepted drop that also completed a line: the score rose by more than
\* the cell count
C2_Witness ==
  /\ ev.op = "drop" /\ ev.ok
  /\ cur.placing
  /\ Cardinality(Filled(cur.grid)) >= 8

\* C3: a drop of the selected shape where it cannot be placed changes nothing:
\* no game object, not the stored best, not the pending timeouts.
C3_IllegalDropIsNoOp ==
  [][\A cell \in DropCells :
       (DropCall(cell) /\ HasSelection(cur)
          /\ ~Legal(cur.grid, cur.pieces[cur.selIdx], cell[1], cell[2]))
       => UNCHANGED <<heap, G, timers, storage>>]_vars

\* the last call was a drop, with a shape selected and the game idle, at a
\* cell where the shape does not fit
C3_Witness ==
  /\ ev.op = "drop"
  /\ ~cur.placing
  /\ HasSelection(cur)
  /\ ~Legal(cur.grid, cur.pieces[cur.selIdx], ev.a, ev.b)

\* C4: while placing is true a drop call changes nothing.
C4_DropWhilePlacingIsNoOp ==
  [][(ev'.op = "drop" /\ cur.placing) => UNCHANGED <<heap, G, timers, storage>>]_vars

\* the last call was a drop made while a clear was pending, of a selected
\* shape at a cell where it fits
C4_Witness ==
  /\ ev.op = "drop"
  /\ cur.placing
  /\ HasSelection(cur)
  /\ Legal(cur.grid, cur.pieces[cur.selIdx], ev.a, ev.b)

\* the pending timeouts whose closure holds object id
Pending(id) == {i \in DOMAIN timers : timers[i].g = id}

\* C5 (as stated): while placing is true a selectPiece call leaves the
\* selection as it was.
C5_SelectWhilePlacingIsNoOp ==
  [][(ev'.op = "selectPiece" /\ cur.placing) => heap'[G].selIdx = cur.selIdx]_vars

\* C6: no game object ever has more than one clear timeout pending, and
\* while the current game has one pending no drop call changes anything.
C6_OnePlacementInFlight ==
  /\ [](\A id \in DOMAIN heap : Cardinality(Pending(id)) <= 1)
  /\ [][(ev'.op = "drop" /\ Pending(G) # {}) => UNCHANGED <<heap, G, timers, storage>>]_vars

\* a drop of a selected shape was refused while the current game's clear
\* timeout was pending
C6_Witness ==
  /\ ev.op = "drop" /\ ~ev.ok
  /\ Cardinality(Pending(G)) = 1
  /\ HasSelection(cur)

\* C7: a clear timeout scheduled by an earlier game, firing after startGame,
\* leaves the current game object as it was.
C7_StaleCallbackLeavesNewGame ==
  [][(ev'.op = "timeout" /\ ev'.a # G) => (G' = G /\ heap'[G] = heap[G])]_vars

\* the timeout of the earlier game has fired on a new game that has a shape
\* on its grid
C7_Witness ==
  /\ ev.op = "timeout"
  /\ ev.a # G
  /\ Filled(cur.grid) # {}

FullRows(grid) == {r \in Idx : Cardinality({c \in Idx : grid[r][c] # EMPTY}) = 8}
FullCols(grid) == {c \in Idx : Cardinality({r \in Idx : grid[r][c] # EMPTY}) = 8}

\* C8: an accepted drop schedules the clear of exactly the rows and columns
\* whose 8 cells are Filled right after the placement (and of nothing when
\* there is none); when the timeout fires on the current game, exactly those
\* rows and columns become Empty and every other cell keeps its value.
C8_ClearCorrectness ==
  [][/\ (ev'.op = "drop" /\ heap' # heap) =>
          LET post == heap'[G].grid
              rows == FullRows(post)
              cols == FullCols(post)
          IN IF rows = {} /\ cols = {}
             THEN timers' = timers
             ELSE /\ timers' = Append(timers, [g |-> G, rows |-> rows, cols |-> cols])
                  /\ heap'[G].flashCells =
                       {x[1] * 8 + x[2] : x \in {y \in Idx \X Idx : y[1] \in rows \/ y[2] \in cols}}
     /\ (ev'.op = "timeout" /\ ev'.a = G) =>
          LET pre  == cur.grid
              post == heap'[G].grid
          IN \A r \in Idx : \A c \in Idx :
                post[r][c] = IF r \in FullRows(pre) \/ c \in FullCols(pre)
                             THEN EMPTY ELSE pre[r][c]]_vars

\* the timeout of the current game has fired and emptied a line, leaving
\* Filled cells beside it
C8_Witness ==
  /\ ev.op = "timeout"
  /\ ev.a = G
  /\ cur.linesCleared >= 1
  /\ Filled(cur.grid) # {}

\* C9: a placement completing count >= 1 lines adds count * 8 * 10 * max(s, 1)
\* to the score on top of its cell count, s being the streak after the
\* increment, and adds count to lines-cleared.
C9_ClearBonus ==
  [][(ev'.op = "drop" /\ heap' # heap) =>
       LET post  == heap'[G]
           k     == cur.pieces[cur.selIdx]
           count == Cardinality(FullRows(post.grid)) + Cardinality(FullCols(post.grid))
           s     == post.streak
       IN count >= 1 =>
            /\ post.score = cur.score + Len(Piece(k).cells)
                              + count * 8 * 10 * (IF s > 1 THEN s ELSE 1)
            /\ post.linesCleared = cur.linesCleared + count]_vars

\* two placements in a row each completed one line: 9 + 5 cells, 80, then
\* 5 cells and 160
C9_Witness ==
  /\ ev.op = "drop" /\ ev.ok
  /\ cur.streak = 2
  /\ cur.linesCleared = 2
  /\ cur.score = 9 + 5 + 80 + 5 + 160

\* C10: an accepted placement sets the streak to 0 when it completes no line
\* and to its previous value plus 1 when it completes one or more; no other
\* step changes the streak of a game object.
C10_Streak ==
  [][/\ (ev'.op = "drop" /\ heap' # heap) =>
          LET post == heap'[G]
          IN IF FullRows(post.grid) = {} /\ FullCols(post.grid) = {}
             THEN post.streak = 0
             ELSE post.streak = cur.streak + 1
     /\ \A id \in DOMAIN heap \cap DOMAIN heap' :
          ~(ev'.op = "drop" /\ id = G /\ heap'[id].grid # heap[id].grid)
             => heap'[id].streak = heap[id].streak]_vars

\* a placement without a line has reset a streak that an earlier placement
\* had raised
C10_Witness ==
  /\ ev.op = "drop" /\ ev.ok
  /\ cur.linesCleared >= 1
  /\ cur.streak = 0
  /\ ~cur.placing

\* the tray of object g has no shape left
TrayEmpty(pieces) == \A i \in 0..2 : pieces[i] = NULL

\* the step runs done() on the current game inside drop (no line was full)
CompletesInDrop == ev'.op = "drop" /\ heap' # heap /\ timers' = timers

\* the step runs done() on the current game from its clear timeout
CompletesInTimeout == ev'.op = "timeout" /\ ev'.a = G

\* the tray done() finds when the step completes a placement
TrayAtCompletion ==
  IF ev'.op = "drop" THEN [cur.pieces EXCEPT ![cur.selIdx] = NULL] ELSE cur.pieces

\* C11: when a placement completes, the tray becomes three catalogue shapes
\* if all three slots were empty and keeps every slot otherwise; in no other
\* step does an empty slot of the current game receive a shape.
C11_RefillAtomicity ==
  [][/\ (CompletesInDrop \/ CompletesInTimeout) =>
          IF TrayEmpty(TrayAtCompletion)
          THEN \A i \in 0..2 : heap'[G].pieces[i] \in PieceRefs
          ELSE heap'[G].pieces = TrayAtCompletion
     /\ (G' = G /\ \E i \in 0..2 : cur.pieces[i] = NULL /\ heap'[G].pieces[i] # NULL)
          => (CompletesInDrop \/ CompletesInTimeout) /\ TrayEmpty(TrayAtCompletion)]_vars

\* the clear timeout of the third placement has refilled the exhausted tray
C11_Witness ==
  /\ ev.op = "timeout"
  /\ ev.a = G
  /\ cur.score > 0
  /\ cur.linesCleared >= 1
  /\ \A i \in 0..2 : cur.pieces[i] # NULL

\* no shape left in the tray fits anywhere on the grid
NoMove(grid, pieces) ==
  \A i \in 0..2 : pieces[i] # NULL =>
     \A r \in Idx : \A c \in Idx : ~Legal(grid, pieces[i], r, c)

\* C12: when a placement completes, the game-over marker is set exactly when
\* no non-empty slot of the tray (after the refill) fits at any cell of the
\* grid (after the clear).
C12_GameOverCorrectness ==
  [][(CompletesInDrop \/ CompletesInTimeout) =>
       ((heap'[G].gameOverMsg # <<>>) <=> NoMove(heap'[G].grid, heap'[G].pieces))]_vars

\* a placement has ended the game with a shape left in the tray
C12_Witness ==
  /\ ev.op = "drop" /\ ev.ok
  /\ cur.gameOverMsg # <<>>
  /\ ~TrayEmpty(cur.pieces)

\* C13: once the game-over marker of the current game is set, no step other
\* than startGame changes its grid, tray, score, streak or lines-cleared
\* counter, and the marker stays as set.
C13_GameOverTerminal ==
  [][(cur.gameOverMsg # <<>> /\ ev'.op # "startGame") =>
       /\ G' = G
       /\ heap'[G].gameOverMsg = cur.gameOverMsg
       /\ heap'[G].grid = cur.grid
       /\ heap'[G].pieces = cur.pieces
       /\ heap'[G].score = cur.score
       /\ heap'[G].streak = cur.streak
       /\ heap'[G].linesCleared = cur.linesCleared]_vars

\* after game over a shape was selected and a drop attempted
C13_Witness ==
  /\ cur.gameOverMsg # <<>>
  /\ ev.op = "drop"
  /\ HasSelection(cur)

\* the number a string of decimal digits denotes (0 for the absent key)
RECURSIVE Horner(_, _)
Horner(digits, acc) ==
  IF digits = <<>> THEN acc ELSE Horner(Tail(digits), 10 * acc + Head(digits))

PersistedBest == Horner(storage, 0)

\* C14: in every state (each is the state after a handler or a timeout
\* callback has returned) the persisted best is at least the score of the
\* current game.
C14_PersistedBestCoversScore == PersistedBest >= cur.score

\* a placement without a line, in a game still going on, has pushed the
\* score and the persisted best with it above the best loaded at start
C14_Witness ==
  /\ ev.op = "drop" /\ ev.ok
  /\ ~cur.placing
  /\ cur.gameOverMsg = <<>>
  /\ cur.score > 6
  /\ PersistedBest = cur.score

C16_StartGameFresh ==
  ev.op = "startGame" =>
    /\ \A r \in Idx : \A c \in Idx : cur.grid[r][c] = EMPTY
    /\ cur.score = 0
    /\ cur.linesCleared = 0
    /\ cur.streak = 0
    /\ \A i \in 0..2 : cur.pieces[i] \in PieceRefs
    /\ cur.selIdx = NULL
    /\ ~cur.placing
    /\ cur.flashCells = {}
    /\ cur.gameOverMsg = <<>>
    /\ cur.comboText = ""
    /\ cur.best = PersistedBest
    /\ DOMAIN cur = {"grid", "score", "linesCleared", "streak", "pieces", "selIdx",
                     "placing", "flashCells", "gameOverMsg", "comboText", "best"}

\* startGame was called mid-placement (the clear timeout of the game it
\* replaced is still pending) after that game had raised the persisted best
C16_Witness ==
  /\ ev.op = "startGame"
  /\ ev.a = 1
  /\ timers # <<>>
  /\ PersistedBest > 6

\* C17: selectPiece(idx) on a slot that holds a shape sets the selection to
\* none when idx was selected and to idx otherwise, and changes nothing else.
C17_SelectToggles ==
  [][(ev'.op = "selectPiece" /\ cur.pieces[ev'.a] # NULL) =>
       /\ heap' = [heap EXCEPT ![G].selIdx = IF cur.selIdx = ev'.a THEN NULL ELSE ev'.a]
       /\ UNCHANGED <<G, timers, storage>>]_vars

\* a second click on the selected slot has deselected it
C17_Witness ==
  /\ ev.op = "selectPiece"
  /\ cur.pieces[ev.a] # NULL
  /\ cur.selIdx = NULL
  /\ cur.score > 0

\* C18: selectPiece(idx) on an emptied slot changes nothing.
C18_SelectEmptySlotIsNoOp ==
  [][(ev'.op = "selectPiece" /\ cur.pieces[ev'.a] = NULL) =>
       UNCHANGED <<heap, G, timers, storage>>]_vars

\* an emptied slot was clicked while another slot was selected
C18_Witness ==
  /\ ev.op = "selectPiece"
  /\ cur.pieces[ev.a] = NULL
  /\ HasSelection(cur)

\* C19: a drop call made with no slot selected changes nothing.
C19_DropWithoutSelectionIsNoOp ==
  [][(ev'.op = "drop" /\ cur.selIdx = NULL) => UNCHANGED <<heap, G, timers, storage>>]_vars

\* a cell was clicked with nothing selected, in an idle game whose tray
\* holds a shape that fits at that cell
C19_Witness ==
  /\ ev.op = "drop" /\ ~ev.ok
  /\ cur.selIdx = NULL
  /\ ~cur.placing
  /\ \E i \in 0..2 : cur.pieces[i] # NULL /\ Legal(cur.grid, cur.pieces[i], ev.a, ev.b)

\* C20: Escape sets the selection to none and changes nothing else, in
\* whatever state it is pressed.
C20_EscapeClearsSelectionOnly ==
  [][ev'.op = "escape" =>
       /\ heap' = [heap EXCEPT ![G].selIdx = NULL]
       /\ UNCHANGED <<G, timers, storage>>]_vars

\* Escape was pressed while a clear was pending
C20_Witness ==
  /\ ev.op = "escape"
  /\ cur.placing
  /\ Pending(G) # {}

\* the keys r*8+c of the cells lying in the given rows or columns
LineKeys(rows, cols) ==
  {x[1] * 8 + x[2] : x \in {y \in Idx \X Idx : y[1] \in rows \/ y[2] \in cols}}

\* C21: a placement that completes r rows and c columns at once is scored
\* with count = r + c and adds r + c to lines-cleared, while the cells it
\* flags are the union of those rows and columns, 8*r + 8*c - r*c of them;
\* the timeout then empties exactly the flagged cells, each once.
C21_CrossingLines ==
  [][/\ (ev'.op = "drop" /\ heap' # heap) =>
          LET post == heap'[G]
              k    == cur.pieces[cur.selIdx]
              rows == FullRows(post.grid)
              cols == FullCols(post.grid)
              r    == Cardinality(rows)
              c    == Cardinality(cols)
              s    == post.streak
          IN r + c >= 1 =>
               /\ post.score = cur.score + Len(Piece(k).cells)
                                 + (r + c) * 8 * 10 * (IF s > 1 THEN s ELSE 1)
               /\ post.linesCleared = cur.linesCleared + r + c
               /\ post.flashCells = LineKeys(rows, cols)
               /\ Cardinality(post.flashCells) = 8 * r + 8 * c - r * c
     /\ (ev'.op = "timeout" /\ ev'.a = G) =>
          LET emptied == Filled(cur.grid) \ Filled(heap'[G].grid)
          IN /\ {x[1] * 8 + x[2] : x \in emptied} = cur.flashCells
             /\ Cardinality(emptied) = Cardinality(cur.flashCells)
             /\ Filled(heap'[G].grid) \subseteq Filled(cur.grid)
             /\ heap'[G].score = cur.score
             /\ heap'[G].linesCleared = cur.linesCleared]_vars

\* the 3x3 block placed last at (0,0) completed row 0 and column 0 together:
\* 19 cells placed, 2 * 80 points, 15 cells emptied by the timeout, 4 left
C21_Witness ==
  /\ ev.op = "timeout"
  /\ ev.a = G
  /\ cur.linesCleared = 2
  /\ cur.streak = 1
  /\ cur.score = 9 + 5 + 5 + 160
  /\ Cardinality(Filled(cur.grid)) = 4

\* C22: an accepted drop empties exactly the selected tray slot, clears the
\* selection and sets placing before it runs clearLines, the other slots
\* keeping their shapes (when it returns the selection is none, and the tray
\* is the emptied one unless the placement completed at once and refilled an
\* exhausted tray); and a slot of a game object goes from a shape to empty
\* only in an accepted drop of that slot, which places that slot's shape.
C22_DropEmptiesSelectedSlot ==
  [][/\ (ev'.op = "drop" /\ ev'.ok) =>
          LET mid     == place(cur, ev'.a, ev'.b)
              emptied == [i \in 0..2 |-> IF i = cur.selIdx THEN NULL ELSE cur.pieces[i]]
          IN /\ cur.pieces[cur.selIdx] # NULL
             /\ mid.pieces = emptied
             /\ mid.selIdx = NULL
             /\ mid.placing
             /\ G' = G
             /\ heap'[G].selIdx = NULL
             /\ IF timers' # timers
                THEN heap'[G].placing /\ heap'[G].pieces = emptied
                ELSE \/ heap'[G].pieces = emptied
                     \/ TrayEmpty(emptied) /\ \A i \in 0..2 : heap'[G].pieces[i] \in PieceRefs
     /\ \A id \in DOMAIN heap \cap DOMAIN heap' : \A i \in 0..2 :
          (heap[id].pieces[i] # NULL /\ heap'[id].pieces[i] = NULL) =>
             /\ ev'.op = "drop" /\ ev'.ok
             /\ id = G
             /\ cur.selIdx = i
             /\ Filled(heap'[G].grid) \ Filled(cur.grid) = Footprint(cur.pieces[i], ev'.a, ev'.b)]_vars

\* the shape of the second slot was placed while the first and third slots
\* held theirs
C22_Witness ==
  /\ ev.op = "drop" /\ ev.ok
  /\ cur.selIdx = NULL
  /\ cur.pieces[0] # NULL
  /\ cur.pieces[1] = NULL
  /\ cur.pieces[2] # NULL
  /\ Filled(cur.grid) # {}

\* object g has a full row or a full column
HasFullLine(g) == FullRows(g.grid) # {} \/ FullCols(g.grid) # {}

\* C23: game over is evaluated after the refill and on the grid after the
\* clear: a game object whose game-over marker is set has a shape in its
\* tray, no full row or column left on its grid, no flagged cell and is not
\* placing; and the marker is set only in a step that completes a placement.
C23_GameOverAfterRefillAndClear ==
  /\ [](\A id \in DOMAIN heap :
          heap[id].gameOverMsg # <<>> =>
             /\ ~TrayEmpty(heap[id].pieces)
             /\ ~HasFullLine(heap[id])
             /\ heap[id].flashCells = {}
             /\ ~heap[id].placing)
  /\ [][\A id \in DOMAIN heap \cap DOMAIN heap' :
          (heap[id].gameOverMsg = <<>> /\ heap'[id].gameOverMsg # <<>>) =>
             \/ id = G /\ CompletesInDrop
             \/ ev'.op = "timeout" /\ ev'.a = id]_vars

\* game over was declared by the clear timeout: the column the placement
\* completed was emptied and the 1x5 bar left in the tray fits nowhere
C23_Witness ==
  /\ ev.op = "timeout"
  /\ ev.a = G
  /\ cur.gameOverMsg # <<>>
  /\ cur.linesCleared = 1
  /\ ~TrayEmpty(cur.pieces)
  /\ Filled(cur.grid) # {}

\* C24: a game object is placing only while its clear timeout is pending,
\* whatever selectPiece, drop or Escape calls are made meanwhile;
\* and, the due timeouts firing, a current game that is placing is always
\* followed by a current game that is not.
C24_PlacingEnds ==
  /\ [](\A id \in DOMAIN heap : heap[id].placing => Cardinality(Pending(id)) = 1)
  /\ (cur.placing ~> ~cur.placing)

\* the clear timeout of the current game has fired and left it ready, with a
\* shape selected while the clear was pending
C24_Witness ==
  /\ ev.op = "timeout"
  /\ ev.a = G
  /\ ~cur.placing
  /\ cur.gameOverMsg = <<>>
  /\ timers = <<>>
  /\ cur.selIdx # NULL

\* C25: an accepted placement that completes no line is finished when drop
\* returns: placing is false, no timeout was scheduled, the streak is 0, the
\* grid is the grid before plus the footprint (nothing cleared, nothing
\* flagged), an exhausted tray has been refilled and game over evaluated.
C25_NoLinePlacementIsSynchronous ==
  [][(ev'.op = "drop" /\ ev'.ok /\ ~HasFullLine(heap'[G])) =>
       LET post == heap'[G]
           k    == cur.pieces[cur.selIdx]
       IN /\ ~post.placing
          /\ timers' = timers
          /\ post.streak = 0
          /\ post.score = cur.score + Len(Piece(k).cells)
          /\ post.linesCleared = cur.linesCleared
          /\ Filled(post.grid) = Filled(cur.grid) \cup Footprint(k, ev'.a, ev'.b)
          /\ post.flashCells = {}
          /\ IF TrayEmpty(TrayAtCompletion)
             THEN \A i \in 0..2 : post.pieces[i] \in PieceRefs
             ELSE post.pieces = TrayAtCompletion
          /\ (post.gameOverMsg # <<>>) <=> NoMove(post.grid, post.pieces)]_vars

\* the last shape of the tray was placed without completing a line, after a
\* line cleared earlier: the drop returned with the tray refilled
C25_Witness ==
  /\ ev.op = "drop" /\ ev.ok
  /\ ~cur.placing
  /\ timers = <<>>
  /\ cur.streak = 0
  /\ cur.linesCleared >= 1
  /\ \A i \in 0..2 : cur.pieces[i] # NULL

\* C26: a game object that is not placing has no full row and no full column.
C26_NoFullLineWhenIdle ==
  \A id \in DOMAIN heap : ~heap[id].placing => ~HasFullLine(heap[id])

\* two placements in a row each completed a line, and the timeout of the
\* second has emptied it: the game is idle with shapes on the grid
C26_Witness ==
  /\ ev.op = "timeout"
  /\ ev.a = G
  /\ ~cur.placing
  /\ cur.linesCleared = 2
  /\ cur.streak = 2
  /\ Filled(cur.grid) # {}

\* C27: a game object that is not placing and not over has a tray shape that
\* fits somewhere on its grid; and on the grid startGame leaves every shape
\* of the catalogue fits, so this holds after startGame whatever it draws.
C27_NeverSilentlyStuck ==
  /\ \A id \in DOMAIN heap :
        (~heap[id].placing /\ heap[id].gameOverMsg = <<>>) =>
           \E i \in 0..2 :
              /\ heap[id].pieces[i] # NULL
              /\ \E r \in Idx : \E c \in Idx : Legal(heap[id].grid, heap[id].pieces[i], r, c)
  /\ ev.op = "startGame" =>
        \A k \in PieceRefs : \E r \in Idx : \E c \in Idx : Legal(cur.grid, k, r, c)

\* a placement after the opening (12 + 4 cells placed) has left a game going
\* on in which one shape of the tray fits nowhere and another still fits
C27_Witness ==
  /\ ev.op = "drop" /\ ev.ok
  /\ ~cur.placing
  /\ cur.gameOverMsg = <<>>
  /\ cur.score = 16
  /\ \E i \in 0..2 : cur.pieces[i] # NULL /\ NoMove(cur.grid, [j \in 0..2 |-> IF j = i THEN cur.pieces[i] ELSE NULL])
  /\ ~NoMove(cur.grid, cur.pieces)

\* C28: in every game object the selection is none or the index of a tray
\* slot that holds a shape.
C28_SelectionIsAShape ==
  \A id \in DOMAIN heap :
     \/ heap[id].selIdx = NULL
     \/ heap[id].selIdx \in 0..2 /\ heap[id].pieces[heap[id].selIdx] \in PieceRefs

\* a slot was selected while the clear was pending, beside an emptied slot
C28_Witness ==
  /\ ev.op = "selectPiece" /\ ev.ok
  /\ cur.placing
  /\ HasSelection(cur)
  /\ \E i \in 0..2 : cur.pieces[i] = NULL

\* C29: a game object whose tray is all empty is placing, with its clear
\* timeout pending; one that is not placing holds a shape.
C29_TrayNeverEmptyWhenIdle ==
  \A id \in DOMAIN heap :
     TrayEmpty(heap[id].pieces) => heap[id].placing /\ Pending(id) # {}

\* the last shape of the tray completed a line: the tray is all empty while
\* the clear is pending
C29_Witness ==
  /\ TrayEmpty(cur.pieces)
  /\ cur.placing
  /\ Pending(G) # {}
  /\ cur.flashCells # {}

\* C30: a game object has flagged cells only while it is placing; they are
\* then the cells of the full rows and columns of its grid, all Filled; and
\* the object has none once its clear timeout has fired.
C30_FlashCells ==
  /\ [](\A id \in DOMAIN heap :
          heap[id].flashCells # {} =>
             /\ heap[id].placing
             /\ heap[id].flashCells = LineKeys(FullRows(heap[id].grid), FullCols(heap[id].grid))
             /\ \A r \in Idx : \A c \in Idx :
                   r * 8 + c \in heap[id].flashCells => heap[id].grid[r][c] # EMPTY)
  /\ [][(ev'.op = "timeout" /\ ev'.a \in DOMAIN heap') => heap'[ev'.a].flashCells = {}]_vars

\* a placement has completed a column, whose eight cells are flagged
C30_Witness ==
  /\ ev.op = "drop" /\ ev.ok
  /\ FullCols(cur.grid) # {}
  /\ Cardinality(cur.flashCells) = 8
  /\ cur.placing
====
